---- MODULE Spec2Model ----
(***************************************************************************)
(* A model of bytecache-rs: the generational History tracker               *)
(* (src/src/history.rs) and the bounded in-memory MemCache                 *)
(* (src/src/mem.rs) that consumes it.                                      *)
(*                                                                         *)
(* Three specifications share the variables:                               *)
(*   Spec     - a History<Val> driven by hit / remove / spill, with the    *)
(*              keys of history.rs (a key carries its own cost through     *)
(*              RequiredBytes, as the Val struct of the tests does);       *)
(*   SpecAny  - the same, over every shape History::new accepts, with the  *)
(*              panic of a rotation as an outcome of hit;                  *)
(*   SpecMem  - a MemCache driven by set / get / clear.                    *)
(***************************************************************************)
EXTENDS Integers, Sequences, FiniteSets, TLC

VARIABLES
    h,          \* Spec: the History under test
    cache,      \* SpecMem: the MemCache, [limit, history, items]
    op,         \* the last completed call: its name, arguments and result
    pre,        \* the value of h (Spec) or cache (SpecMem) when that call started
    age         \* Spec: per key, generation rotations since the last hit on it

vars == <<h, cache, op, pre, age>>

-----------------------------------------------------------------------------
(* Bounds *)

\* keys of the History specification are Val{num: 1..MaxNum, usage}
MaxNum == 3
\* hit is not taken once the History's total usage exceeds this
MaxUsage == 6
\* values of the MemCache specification are at most MaxLen bytes long
MaxLen == 3
\* set and get are not taken once the MemCache's usage() exceeds this
MaxMemUsage == 3

-----------------------------------------------------------------------------
(* Keys of history.rs: a key reports its own cost *)

\* the Val struct of the tests: identity is (num, usage)
Val(n) == [num |-> n, usage |-> IF n % 3 = 0 THEN 2 ELSE 1]

Vals == {Val(n) : n \in 1..MaxNum}

required_bytes(value) == value.usage

RECURSIVE SumBytes(_)
SumBytes(S) ==
    IF S = {} THEN 0
    ELSE LET v == CHOOSE x \in S : TRUE
         IN required_bytes(v) + SumBytes(S \ {v})

-----------------------------------------------------------------------------
(* Bucket<K>: a HashSet of keys and a running usage counter *)

Bucket_new == [items |-> {}, usage |-> 0]

Bucket_contains(b, value) == value \in b.items

\* usage is raised whether or not the set already holds the value
Bucket_insert(b, value) ==
    [items |-> b.items \cup {value}, usage |-> b.usage + required_bytes(value)]

Bucket_remove(b, value) ==
    IF value \in b.items
    THEN [items |-> b.items \ {value}, usage |-> b.usage - required_bytes(value)]
    ELSE b

Bucket_clear(b) == [items |-> {}, usage |-> 0]

\* extend: insert of every element of the iterator, one by one
RECURSIVE Bucket_extend(_, _)
Bucket_extend(b, S) ==
    IF S = {} THEN b
    ELSE LET v == CHOOSE x \in S : TRUE
         IN Bucket_extend(Bucket_insert(b, v), S \ {v})

-----------------------------------------------------------------------------
(* History<K> *)

History_new(max_bucket_usage, bucket_count) ==
    [max_bucket_usage |-> max_bucket_usage,
     bucket_count     |-> bucket_count,
     next_bucket      |-> Bucket_new,
     old_bucket       |-> Bucket_new,
     buckets          |-> <<>>]

RECURSIVE SumUsage(_)
SumUsage(bs) == IF bs = <<>> THEN 0 ELSE Head(bs).usage + SumUsage(Tail(bs))

usage(hist) ==
    hist.old_bucket.usage + SumUsage(hist.buckets) + hist.next_bucket.usage

detailed_usage(hist) ==
    <<hist.old_bucket.usage>>
        \o [i \in 1..Len(hist.buckets) |-> hist.buckets[i].usage]
        \o <<hist.next_bucket.usage>>

\* the ring is scanned front to back; the first bucket that holds the key
\* gives it up and the scan stops. old_bucket is not part of the scan.
RECURSIVE dig_out_from(_, _, _)
dig_out_from(bs, i, key) ==
    IF i > Len(bs) THEN bs
    ELSE IF Bucket_contains(bs[i], key)
         THEN [bs EXCEPT ![i] = Bucket_remove(@, key)]
         ELSE dig_out_from(bs, i + 1, key)

\* a dig-out that reaches into old_bucket as well
dig_out_and_old(hist, key) ==
    [hist EXCEPT !.buckets = dig_out_from(hist.buckets, 1, key),
                 !.old_bucket = Bucket_remove(@, key)]

dig_out(hist, key) ==
    [hist EXCEPT !.buckets = dig_out_from(hist.buckets, 1, key)]

\* pop_front().unwrap() on a ring that has nothing to pop
burry_bucket_panics(hist) ==
    /\ Len(hist.buckets) >= hist.bucket_count
    /\ hist.buckets = <<>>

\* a rotation that pops the front only once the ring is over its bound
burry_bucket_late_pop(hist) ==
    IF Len(hist.buckets) > hist.bucket_count
    THEN LET popped == Head(hist.buckets)
         IN [hist EXCEPT
               !.old_bucket  = Bucket_extend(@, popped.items),
               !.buckets     = Append(Tail(hist.buckets), hist.next_bucket),
               !.next_bucket = Bucket_clear(popped)]
    ELSE [hist EXCEPT
               !.buckets     = Append(@, hist.next_bucket),
               !.next_bucket = Bucket_new]

burry_bucket(hist) ==
    IF Len(hist.buckets) >= hist.bucket_count
    THEN LET popped == Head(hist.buckets)
         IN [hist EXCEPT
               !.old_bucket  = Bucket_extend(@, popped.items),
               !.buckets     = Append(Tail(hist.buckets), hist.next_bucket),
               !.next_bucket = Bucket_clear(popped)]
    ELSE [hist EXCEPT
               !.buckets     = Append(@, hist.next_bucket),
               !.next_bucket = Bucket_new]

\* a hit that rotates only once next_bucket is over the threshold
hit_rotates_late(hist, key) ==
    IF Bucket_contains(hist.next_bucket, key)
    THEN hist
    ELSE LET dug == dig_out(hist, key)
             ins == [dug EXCEPT !.next_bucket = Bucket_insert(@, key)]
         IN IF ins.next_bucket.usage > ins.max_bucket_usage
            THEN burry_bucket(ins)
            ELSE ins

\* a hit that does not look into next_bucket first
hit_always_insert(hist, key) ==
    LET dug == dig_out(hist, key)
        ins == [dug EXCEPT !.next_bucket = Bucket_insert(@, key)]
    IN IF ins.next_bucket.usage >= ins.max_bucket_usage
       THEN burry_bucket(ins)
       ELSE ins

hit(hist, key) ==
    IF Bucket_contains(hist.next_bucket, key)
    THEN hist
    ELSE LET dug == dig_out(hist, key)
             ins == [dug EXCEPT !.next_bucket = Bucket_insert(@, key)]
         IN IF ins.next_bucket.usage >= ins.max_bucket_usage
            THEN burry_bucket(ins)
            ELSE ins

\* the History as hit leaves it when burry_bucket panics: the key is in
\* next_bucket and no rotation has been made
hit_before_burry(hist, key) ==
    [dig_out(hist, key) EXCEPT !.next_bucket = Bucket_insert(@, key)]

hit_panics(hist, key) ==
    /\ ~Bucket_contains(hist.next_bucket, key)
    /\ hit_before_burry(hist, key).next_bucket.usage >= hist.max_bucket_usage
    /\ burry_bucket_panics(hit_before_burry(hist, key))

remove(hist, key) ==
    IF Bucket_contains(hist.next_bucket, key)
    THEN [hist EXCEPT !.next_bucket = Bucket_remove(@, key)]
    ELSE dig_out(hist, key)

\* what spill hands to the collector
spilled(hist) == hist.old_bucket.items

\* a spill that hands old's keys over and keeps them
spill_keep_old(hist) == hist

spill(hist) == [hist EXCEPT !.old_bucket = Bucket_clear(@)]

-----------------------------------------------------------------------------
(* Reading a History *)

RingItems(hist) == UNION {hist.buckets[i].items : i \in 1..Len(hist.buckets)}

\* the bands of a History, and those that hold key
NextBand == <<"next", 0>>
OldBand == <<"old", 0>>
RingBand(i) == <<"ring", i>>

Bands(hist, key) ==
    (IF key \in hist.next_bucket.items THEN {NextBand} ELSE {})
      \cup (IF key \in hist.old_bucket.items THEN {OldBand} ELSE {})
      \cup {RingBand(i) : i \in {j \in 1..Len(hist.buckets) : key \in hist.buckets[j].items}}

\* did hit(hist, key) rotate the generations
rotates(hist, key) ==
    /\ ~Bucket_contains(hist.next_bucket, key)
    /\ hist.next_bucket.usage + required_bytes(key) >= hist.max_bucket_usage

-----------------------------------------------------------------------------
(* Spec: a History driven by its three public operations *)

\* History::new(2, 1) and History::new(2, 2), the two shapes of the tests
Configs == {History_new(2, 1), History_new(2, 2)}

NoCache == [limit |-> 0, history |-> History_new(1, 2), items |-> <<>>]

MaxAge(hist) == hist.bucket_count + 1

Init ==
    /\ h \in Configs
    /\ cache = NoCache
    /\ op = [name |-> "new"]
    /\ pre = h
    /\ age = [v \in Vals |-> MaxAge(h)]

Hit(key) ==
    /\ usage(h) <= MaxUsage
    /\ h' = hit(h, key)
    /\ op' = [name |-> "hit", key |-> key]
    /\ pre' = h
    /\ age' = [v \in Vals |->
                 LET a == IF v = key THEN 0 ELSE age[v]
                 IN IF rotates(h, key)
                    THEN IF a < MaxAge(h) THEN a + 1 ELSE a
                    ELSE a]
    /\ UNCHANGED cache

Remove(key) ==
    /\ h' = remove(h, key)
    /\ op' = [name |-> "remove", key |-> key]
    /\ pre' = h
    /\ UNCHANGED <<cache, age>>

Spill ==
    /\ h' = spill(h)
    /\ op' = [name |-> "spill", target |-> spilled(h)]
    /\ pre' = h
    /\ UNCHANGED <<cache, age>>

Next ==
    \/ \E key \in Vals : Hit(key)
    \/ \E key \in Vals : Remove(key)
    \/ Spill

Spec == Init /\ [][Next]_vars

-----------------------------------------------------------------------------
(* SpecAny: a History of any shape History::new accepts, the boundary      *)
(* values 0 of both parameters included.  A call that panics unwinds the   *)
(* caller: no operation follows it.                                        *)

ConfigsAny ==
    Configs \cup {History_new(2, 0), History_new(0, 1), History_new(0, 0)}

InitAny ==
    /\ h \in ConfigsAny
    /\ cache = NoCache
    /\ op = [name |-> "new"]
    /\ pre = h
    /\ age = [v \in Vals |-> MaxAge(h)]

HitAny(key) ==
    /\ op.name # "panic"
    /\ ~hit_panics(h, key)
    /\ Hit(key)

HitPanics(key) ==
    /\ op.name # "panic"
    /\ usage(h) <= MaxUsage
    /\ hit_panics(h, key)
    /\ h' = hit_before_burry(h, key)
    /\ op' = [name |-> "panic", key |-> key]
    /\ pre' = h
    /\ UNCHANGED <<cache, age>>

RemoveAny(key) ==
    /\ op.name # "panic"
    /\ Remove(key)

SpillAny ==
    /\ op.name # "panic"
    /\ Spill

NextAny ==
    \/ \E key \in Vals : HitAny(key)
    \/ \E key \in Vals : HitPanics(key)
    \/ \E key \in Vals : RemoveAny(key)
    \/ SpillAny

SpecAny == InitAny /\ [][NextAny]_vars

-----------------------------------------------------------------------------
(* MemCache<K>.  Its history is the History of history.rs over (key, cost) *)
(* pairs: mem.rs hands hit the key and the length of the value, and reads   *)
(* (key, cost) pairs out of spill.  A pair is one key of the History: its   *)
(* identity is both fields and its RequiredBytes is the cost, as for the    *)
(* Val of the tests of history.rs.                                          *)

Entry(key, cost) == [key |-> key, usage |-> cost]

\* the two keys of the tests of mem.rs
Keys == {"test", "test2"}

\* Vec<u8> payloads: [], [2], [2,3], [2,3,4], ...
Values == {[i \in 1..n |-> i + 1] : n \in 0..MaxLen}

MemCache_new(limit) ==
    LET bucker_size == IF limit \div 5 = 0 THEN 1 ELSE limit \div 5
        bucket_count == 2
    IN [limit   |-> limit,
        history |-> History_new(bucker_size, bucket_count),
        items   |-> <<>>]

can_store_bytes(c, amount) == usage(c.history) + amount <= c.limit

\* HashMap::remove of every key of S
items_remove(items, S) == [k \in DOMAIN items \ S |-> items[k]]

\* HashMap::insert
items_insert(items, key, value) ==
    [k \in DOMAIN items \cup {key} |-> IF k = key THEN value ELSE items[k]]

\* a free_memory that gives up without spilling
free_memory_no_spill(c, required_mem) ==
    [ok |-> can_store_bytes(c, required_mem), cache |-> c, spills |-> 0]

\* One pass of the loop of free_memory, and the passes after it: spill into
\* the collector, delete what was spilled, clear the collector, then test the
\* collector's length.  spills counts the calls of History::spill.
RECURSIVE free_memory_loop(_, _, _)
free_memory_loop(c, required_mem, spills) ==
    LET collector == spilled(c.history)
        after == [c EXCEPT !.history = spill(@),
                           !.items = items_remove(@, {e.key : e \in collector})]
        cleared == collector \ collector
    IN IF Cardinality(cleared) = 0
       THEN [ok     |-> can_store_bytes(after, required_mem),
             cache  |-> after,
             spills |-> spills + 1]
       ELSE IF can_store_bytes(after, required_mem)
            THEN [ok |-> TRUE, cache |-> after, spills |-> spills + 1]
            ELSE free_memory_loop(after, required_mem, spills + 1)

\* the loop with the collector's length tested before the collector is
\* cleared: it goes round until a spill returns nothing
RECURSIVE free_memory_loop_until_empty(_, _, _)
free_memory_loop_until_empty(c, required_mem, spills) ==
    LET collector == spilled(c.history)
        after == [c EXCEPT !.history = spill(@),
                           !.items = items_remove(@, {e.key : e \in collector})]
    IN IF Cardinality(collector) = 0
       THEN [ok     |-> can_store_bytes(after, required_mem),
             cache  |-> after,
             spills |-> spills + 1]
       ELSE IF can_store_bytes(after, required_mem)
            THEN [ok |-> TRUE, cache |-> after, spills |-> spills + 1]
            ELSE free_memory_loop_until_empty(after, required_mem, spills + 1)

free_memory_until_empty(c, required_mem) ==
    IF can_store_bytes(c, required_mem)
    THEN [ok |-> TRUE, cache |-> c, spills |-> 0]
    ELSE free_memory_loop_until_empty(c, required_mem, 0)

free_memory(c, required_mem) ==
    IF can_store_bytes(c, required_mem)
    THEN [ok |-> TRUE, cache |-> c, spills |-> 0]
    ELSE free_memory_loop(c, required_mem, 0)

\* what set asks free_memory for: the bytes the value needs beyond those of
\* the value the key holds
real_required_mem(c, key, value) ==
    IF key \in DOMAIN c.items
    THEN IF Len(c.items[key]) >= Len(value)
         THEN 0
         ELSE Len(value) - Len(c.items[key])
    ELSE Len(value)

\* a set that leaves the key's previous value in place when it fails
set_keep_on_fail(c, key, value) ==
    LET new_required_mem == Len(value)
        freed == free_memory(c, real_required_mem(c, key, value))
        fc == freed.cache
    IN IF ~freed.ok
       THEN [result |-> "OutOfMemory", cache |-> fc]
       ELSE [result |-> "Stored",
             cache  |-> [fc EXCEPT !.items = items_insert(@, key, value),
                                   !.history = hit(@, Entry(key, new_required_mem))]]

\* On failure the pair handed to History::remove is the key with the length
\* of the value that items.remove has just returned.
set(c, key, value) ==
    LET new_required_mem == Len(value)
        freed == free_memory(c, real_required_mem(c, key, value))
        fc == freed.cache
    IN IF ~freed.ok
       THEN [result |-> "OutOfMemory",
             cache  |-> IF key \in DOMAIN fc.items
                        THEN [fc EXCEPT
                                !.items = items_remove(@, {key}),
                                !.history =
                                    remove(@, Entry(key, Len(fc.items[key])))]
                        ELSE fc]
       ELSE [result |-> "Stored",
             cache  |-> [fc EXCEPT !.items = items_insert(@, key, value),
                                   !.history = hit(@, Entry(key, new_required_mem))]]

get(c, key) ==
    IF key \in DOMAIN c.items
    THEN [found |-> TRUE, value |-> c.items[key],
          cache |-> [c EXCEPT !.history = hit(@, Entry(key, Len(c.items[key])))]]
    ELSE [found |-> FALSE, value |-> <<>>, cache |-> c]

\* History::clear is called by MemCache::clear and is not defined in
\* history.rs; it is taken to reset the History to the state History::new
\* gives for the same threshold and ring length ("reset", spec.md 4.3)
History_clear(hist) == History_new(hist.max_bucket_usage, hist.bucket_count)

clear(c) ==
    [c EXCEPT !.items = items_remove(@, DOMAIN @),
              !.history = History_clear(@)]

-----------------------------------------------------------------------------
(* SpecMem: a MemCache driven by set, get and clear *)

\* with_capacity(2) and (3) as in the tests (generation threshold 1), and a
\* budget whose generation threshold is 2
Limits == {2, 3, 10}

NoHistory == History_new(2, 1)

InitMem ==
    /\ \E limit \in Limits : cache = MemCache_new(limit)
    /\ h = NoHistory
    /\ op = [name |-> "new"]
    /\ pre = cache
    /\ age = <<>>

Set(key, value) ==
    /\ usage(cache.history) <= MaxMemUsage
    /\ cache' = set(cache, key, value).cache
    /\ op' = [name |-> "set", key |-> key, value |-> value,
              result |-> set(cache, key, value).result]
    /\ pre' = cache
    /\ UNCHANGED <<h, age>>

Get(key) ==
    /\ usage(cache.history) <= MaxMemUsage
    /\ cache' = get(cache, key).cache
    /\ op' = [name |-> "get", key |-> key, found |-> get(cache, key).found,
              value |-> get(cache, key).value]
    /\ pre' = cache
    /\ UNCHANGED <<h, age>>

Clear ==
    /\ cache' = clear(cache)
    /\ op' = [name |-> "clear"]
    /\ pre' = cache
    /\ UNCHANGED <<h, age>>

NextMem ==
    \/ \E key \in Keys, value \in Values : Set(key, value)
    \/ \E key \in Keys : Get(key)
    \/ Clear

SpecMem == InitMem /\ [][NextMem]_vars

-----------------------------------------------------------------------------
(* Claims about the History, checked under Spec *)

\* C3: in every reachable state each key occurs in at most one of the bands
\* next, ring buckets, old; a hit on a key sitting in old does not leave it
\* in old as well as in next.
C3_OneBandPerKey ==
    \A v \in Vals : Cardinality(Bands(h, v)) <= 1

\* C4: in every reachable state each bucket's usage counter (old, every ring
\* bucket, next) equals the sum of the costs of the keys the bucket holds.
C4_BucketUsageIsSumOfCosts ==
    /\ h.old_bucket.usage = SumBytes(h.old_bucket.items)
    /\ h.next_bucket.usage = SumBytes(h.next_bucket.items)
    /\ \A i \in 1..Len(h.buckets) :
          h.buckets[i].usage = SumBytes(h.buckets[i].items)

\* C6: every key handed out by a spill has seen at least generation_count + 1
\* generation rotations since the most recent hit on it.
C6_SpilledKeysAreAged ==
    op.name = "spill" =>
        \A v \in op.target : age[v] >= pre.bucket_count + 1

\* C8 (as claimed): remove(key) deletes key from whichever band holds it -
\* next, a ring bucket or old - so that afterwards key is in no band and
\* usage() has dropped by key's cost; a key in no band changes nothing.
C8_RemoveFromAnyBand ==
    op.name = "remove" =>
        IF Bands(pre, op.key) # {}
        THEN /\ Bands(h, op.key) = {}
             /\ usage(h) = usage(pre) - required_bytes(op.key)
        ELSE h = pre

\* C8 (amended): remove(key) deletes key from next or from the ring bucket
\* that holds it, so that afterwards key is in neither, usage() has dropped
\* by key's cost and old is as it was; a key that is in neither next nor the
\* ring (absent, or held by old alone) changes nothing.
C8_RemoveFromNextOrRing ==
    op.name = "remove" =>
        IF Bands(pre, op.key) \ {OldBand} # {}
        THEN /\ Bands(h, op.key) \ {OldBand} = {}
             /\ usage(h) = usage(pre) - required_bytes(op.key)
             /\ h.old_bucket = pre.old_bucket
        ELSE h = pre

\* a remove took its key out of a ring bucket while old held other keys
C8_Witness ==
    /\ op.name = "remove"
    /\ op.key \in RingItems(pre)
    /\ op.key \notin RingItems(h)
    /\ pre.old_bucket.items # {}

\* C9: remove(key) on a key that has fallen out of the ring into old leaves
\* the History unchanged: the key stays in old, and detailed_usage() and
\* usage() are what they were.
C9_RemoveLeavesOldKeyAlone ==
    (op.name = "remove" /\ op.key \in pre.old_bucket.items) =>
        /\ op.key \in h.old_bucket.items
        /\ detailed_usage(h) = detailed_usage(pre)
        /\ usage(h) = usage(pre)
        /\ h = pre

-----------------------------------------------------------------------------
(* Claims about the MemCache, checked under SpecMem *)

\* total number of bytes of the values stored
RECURSIVE TotalBytes(_)
TotalBytes(items) ==
    IF DOMAIN items = {} THEN 0
    ELSE LET k == CHOOSE x \in DOMAIN items : TRUE
         IN Len(items[k]) + TotalBytes([x \in DOMAIN items \ {k} |-> items[x]])

\* the (key, cost) pairs a History tracks in any band
Entries(hist) ==
    hist.next_bucket.items \cup hist.old_bucket.items \cup RingItems(hist)

\* the pairs tracked for key, the bands that hold one, the keys tracked
EntriesOf(hist, key) == {e \in Entries(hist) : e.key = key}

BandsOfKey(hist, key) == UNION {Bands(hist, e) : e \in EntriesOf(hist, key)}

TrackedKeys(hist) == {e.key : e \in Entries(hist)}

\* the keys a spill would hand to the collector
SpilledKeys(hist) == {e.key : e \in spilled(hist)}

\* C1: immediately after any set that returns Stored, usage() <= limit(),
\* also when the key set held a value sitting in the old band and the new
\* value is larger.
C1_StoredWithinLimit ==
    (op.name = "set" /\ op.result = "Stored") =>
        usage(cache.history) <= cache.limit

\* C2: a set that returns OutOfMemory leaves the value of every key other
\* than the failing key as it was: none is deleted, none is changed.
C2_FailedSetKeepsOtherKeys ==
    (op.name = "set" /\ op.result = "OutOfMemory") =>
        \A k \in Keys \ {op.key} :
            /\ (k \in DOMAIN pre.items) = (k \in DOMAIN cache.items)
            /\ k \in DOMAIN pre.items => cache.items[k] = pre.items[k]

\* C5: every key present in values has exactly one entry in history, whose
\* cost is the length of its value; history holds no key that values lacks;
\* usage() is the total number of bytes stored.
C5_HistoryMirrorsValues ==
    /\ \A k \in DOMAIN cache.items :
          /\ EntriesOf(cache.history, k) = {Entry(k, Len(cache.items[k]))}
          /\ Cardinality(BandsOfKey(cache.history, k)) = 1
    /\ TrackedKeys(cache.history) \subseteq DOMAIN cache.items
    /\ usage(cache.history) = TotalBytes(cache.items)

\* the newest bands: next, and the generation sealed last
NewestBands(hist) == {NextBand, RingBand(Len(hist.buckets))}

\* C7: after get(key) returns a value, key is tracked in the band it would
\* occupy after set(key, same value) - next, or the newest sealed generation
\* if the hit rotated - and in no older band, so that a set of another key
\* issued next cannot evict it.
C7_GetRefreshesLikeSet ==
    (op.name = "get" /\ op.found) =>
        /\ BandsOfKey(cache.history, op.key) # {}
        /\ BandsOfKey(cache.history, op.key) \subseteq NewestBands(cache.history)
        /\ BandsOfKey(cache.history, op.key) =
             BandsOfKey(set(pre, op.key, op.value).cache.history, op.key)
        /\ \A k \in Keys \ {op.key}, v \in Values :
              op.key \in DOMAIN set(cache, k, v).cache.items

\* C10: when set(key, value) returns OutOfMemory and key held a value before
\* the call, key is removed entirely: get(key) finds nothing, key is in no
\* history band, and usage() no longer includes the old value's bytes.
C10_FailedSetRemovesKey ==
    (op.name = "set" /\ op.result = "OutOfMemory" /\ op.key \in DOMAIN pre.items) =>
        /\ ~get(cache, op.key).found
        /\ BandsOfKey(cache.history, op.key) = {}
        /\ usage(cache.history) = TotalBytes(cache.items)

\* C11: a set of a value longer than the limit returns OutOfMemory, and the
\* get of its key that follows finds nothing, whatever the key held before
C11_OversizedNeverStored ==
    (op.name = "set" /\ Len(op.value) > cache.limit) =>
        /\ op.result = "OutOfMemory"
        /\ ~get(cache, op.key).found

\* C12: after a set that returned Stored, get of the key returns exactly the
\* value; after a set that returned OutOfMemory, and for a key that no set
\* has stored, get returns not-found
C12_SetGetRoundTrip ==
    /\ (op.name = "set" /\ op.result = "Stored") =>
           /\ get(cache, op.key).found
           /\ get(cache, op.key).value = op.value
    /\ (op.name = "set" /\ op.result = "OutOfMemory") =>
           ~get(cache, op.key).found
    /\ op.name = "new" => \A k \in Keys : ~get(cache, k).found
    /\ \A k \in Keys :
           (/\ ~get(pre, k).found
            /\ ~(op.name = "set" /\ op.key = k /\ op.result = "Stored"))
               => ~get(cache, k).found

\* a set that failed on a key that held a value
C12_Witness ==
    /\ op.name = "set"
    /\ op.result = "OutOfMemory"
    /\ op.key \in DOMAIN pre.items
    /\ ~get(cache, op.key).found

\* C13: no operation of a History panics, whatever the key, the cost, the
\* calls before it and the max_bucket_usage >= 0 and bucket_count >= 0 the
\* History was built with: every rotation completes
C13_NoOperationPanics == op.name # "panic"

\* C14: spill hands the whole of old to the collector and leaves old empty
\* with usage 0, so a spill that follows at once delivers no key and leaves
\* usage() as it is
C14_SpillEmptiesOld ==
    op.name = "spill" =>
        /\ op.target = pre.old_bucket.items
        /\ h.old_bucket.items = {}
        /\ h.old_bucket.usage = 0
        /\ spilled(h) = {}
        /\ usage(spill(h)) = usage(h)

\* a spill that delivered keys
C14_Witness ==
    /\ op.name = "spill"
    /\ op.target # {}
    /\ h.old_bucket.items = {}

\* C15: a hit repeated at once with the same key and cost leaves usage()
\* where the first hit left it
C15_RepeatedHitKeepsUsage ==
    op.name = "hit" => usage(hit(h, op.key)) = usage(h)

\* the first hit sealed the key into the ring, so the repeated hit digs it
\* out and inserts it again
C15_Witness ==
    /\ op.name = "hit"
    /\ op.key \in RingItems(h)
    /\ op.key \in hit(h, op.key).buckets[Len(h.buckets)].items
    /\ hit(h, op.key) # h

\* C16: a hit on a key that lives in old or in a ring bucket takes it out of
\* that band and puts it into next: usage() is what it was before the hit
\* and the key is in one band only
C16_HitDigsOutOfOldAndRing ==
    (op.name = "hit" /\ Bands(pre, op.key) \ {NextBand} # {}) =>
        /\ usage(h) = usage(pre)
        /\ Cardinality(Bands(h, op.key)) = 1
        /\ OldBand \notin Bands(h, op.key)

\* the MemCache at the point where set learns that free_memory has failed
AtFailure(c, key, value) ==
    free_memory(c, real_required_mem(c, key, value)).cache

\* C17 as stated: when set returns OutOfMemory, the last spill returned
\* nothing to remove, and old and every ring generation hold no entries
C17_FailsOnlyWhenAllExhausted ==
    (op.name = "set" /\ op.result = "OutOfMemory") =>
        LET at == AtFailure(pre, op.key, op.value).history
        IN /\ SpilledKeys(pre.history) = {}
           /\ at.old_bucket.items = {}
           /\ \A i \in 1..Len(at.buckets) : at.buckets[i].items = {}

\* C17: when set returns OutOfMemory, old has been spilled once and holds
\* no entries, usage() plus the marginal cost still exceeds the limit, and
\* next and the ring generations are as they were when the call started
C17_FailsWhenOldIsSpilled ==
    (op.name = "set" /\ op.result = "OutOfMemory") =>
        LET at == AtFailure(pre, op.key, op.value)
        IN /\ at.history.old_bucket.items = {}
           /\ at.history.old_bucket.usage = 0
           /\ at.items = items_remove(pre.items, SpilledKeys(pre.history))
           /\ ~can_store_bytes(at, real_required_mem(pre, op.key, op.value))
           /\ at.history.buckets = pre.history.buckets
           /\ at.history.next_bucket = pre.history.next_bucket
           /\ cache.history.old_bucket.items = {}

\* a set that failed after a spill that returned keys, with an entry left in
\* the ring
C17_Witness ==
    /\ op.name = "set"
    /\ op.result = "OutOfMemory"
    /\ SpilledKeys(pre.history) # {}
    /\ \E i \in 1..Len(pre.history.buckets) :
           AtFailure(pre, op.key, op.value).history.buckets[i].items # {}

\* C18: a set removes from the values only keys that were in old when the
\* call started, and its own key when it returns OutOfMemory; a key tracked
\* in next or in a ring generation is never deleted by a set of another
\* key; a get deletes no key
C18_AgingIsTheOnlyEviction ==
    /\ op.name = "set" =>
           /\ (DOMAIN pre.items \ DOMAIN cache.items) \subseteq
                  SpilledKeys(pre.history)
                    \cup (IF op.result = "OutOfMemory" THEN {op.key} ELSE {})
           /\ \A k \in Keys \ {op.key} :
                  (/\ k \in DOMAIN pre.items
                   /\ BandsOfKey(pre.history, k) \ {OldBand} # {})
                      => k \in DOMAIN cache.items
    /\ op.name = "get" => cache.items = pre.items

\* C19: a set on a key that holds a value at least as long as the new one
\* has marginal cost 0, returns Stored and removes no other key from the
\* values
C19_ShrinkingSetFreesNothing ==
    (/\ op.name = "set"
     /\ op.key \in DOMAIN pre.items
     /\ Len(op.value) <= Len(pre.items[op.key])) =>
        /\ real_required_mem(pre, op.key, op.value) = 0
        /\ op.result = "Stored"
        /\ \A k \in DOMAIN pre.items \ {op.key} :
               k \in DOMAIN cache.items /\ cache.items[k] = pre.items[k]

\* C20: the ring holds at most bucket_count sealed buckets, the oldest at
\* the front and the newest at the back (a key in the i-th bucket from the
\* back was last hit i rotations ago); a rotation with a full ring pops the
\* front bucket, moves all its keys to old and appends the former next at
\* the back
C20_RingIsBoundedAndOrdered ==
    /\ Len(h.buckets) <= h.bucket_count
    /\ \A i \in 1..Len(h.buckets) :
           \A v \in h.buckets[i].items : age[v] = Len(h.buckets) - i + 1
    /\ (/\ op.name = "hit"
        /\ rotates(pre, op.key)
        /\ Len(pre.buckets) >= pre.bucket_count) =>
           LET sealed == hit_before_burry(pre, op.key)
           IN /\ h.buckets = Append(Tail(sealed.buckets), sealed.next_bucket)
              /\ h.old_bucket.items =
                     sealed.old_bucket.items \cup Head(sealed.buckets).items
              /\ h.next_bucket.items = {}

\* a rotation of a full ring whose front bucket held keys
C20_Witness ==
    /\ op.name = "hit"
    /\ rotates(pre, op.key)
    /\ Len(pre.buckets) = pre.bucket_count
    /\ Len(h.buckets) = h.bucket_count
    /\ Head(hit_before_burry(pre, op.key).buckets).items # {}
    /\ Head(hit_before_burry(pre, op.key).buckets).items
           \subseteq h.old_bucket.items

-----------------------------------------------------------------------------
(* Claims about a History of any shape, checked under SpecAny *)

\* C21 as stated: after every completed hit, remove and spill the usage of
\* next is strictly below max_bucket_usage
C21_NextBelowThreshold ==
    op.name \in {"hit", "remove", "spill"} =>
        h.next_bucket.usage < h.max_bucket_usage

\* C21: after every completed hit, remove and spill the usage of next is
\* strictly below max_bucket_usage, and where max_bucket_usage is 0 next is
\* empty with usage 0; a hit that brings next to the threshold or above it
\* seals next into the ring in the same call
C21_NextBelowThresholdOrEmpty ==
    op.name \in {"hit", "remove", "spill"} =>
        /\ \/ h.next_bucket.usage < h.max_bucket_usage
           \/ /\ h.max_bucket_usage = 0
              /\ h.next_bucket = Bucket_new
        /\ (op.name = "hit" /\ rotates(pre, op.key)) =>
               /\ h.next_bucket = Bucket_new
               /\ h.buckets[Len(h.buckets)].usage >= h.max_bucket_usage
               /\ op.key \in h.buckets[Len(h.buckets)].items

\* a hit sealed a generation whose usage is above a positive threshold
C21_Witness ==
    /\ op.name = "hit"
    /\ rotates(pre, op.key)
    /\ h.max_bucket_usage > 0
    /\ h.buckets[Len(h.buckets)].usage > h.max_bucket_usage
    /\ h.next_bucket.usage < h.max_bucket_usage

-----------------------------------------------------------------------------
(* Claims about free_memory and get, checked under SpecMem *)

\* C22: in every state and for every requested size free_memory returns
\* after at most one spill, and it returns false exactly when usage() plus
\* the requested size still exceeds the limit after that spill
C22_FreeMemoryStopsAfterOneSpill ==
    \A required_mem \in 0..(cache.limit + 1) :
        LET freed == free_memory(cache, required_mem)
        IN /\ freed.spills <= 1
           /\ freed.spills = 0 <=> can_store_bytes(cache, required_mem)
           /\ ~freed.ok <=>
                  /\ freed.spills = 1
                  /\ usage(freed.cache.history) + required_mem > cache.limit
           /\ freed.spills = 1 => freed.cache.history = spill(cache.history)

\* a free_memory that fails although its spill returned a key
C22_Witness ==
    \E required_mem \in 0..(cache.limit + 1) :
        /\ free_memory(cache, required_mem).spills = 1
        /\ ~free_memory(cache, required_mem).ok
        /\ SpilledKeys(cache.history) # {}

\* C23: a get, of a present or of an absent key, leaves the values and the
\* total usage() as they were; it moves keys between the bands of the
\* history and neither adds a key to them nor drops one
C23_GetKeepsValuesAndUsage ==
    op.name = "get" =>
        /\ cache.items = pre.items
        /\ usage(cache.history) = usage(pre.history)
        /\ TrackedKeys(cache.history) = TrackedKeys(pre.history)
        /\ ~op.found => cache = pre
====
